---------------------------- MODULE Spec2Model ----------------------------
(* vizbuilder: the shape model (components/shapes.py) and the markup       *)
(* builder (core/html_builder.py).                                         *)
(*                                                                         *)
(* Python objects live in a heap: a sequence of objects whose index is the *)
(* object's identity, so that "a fresh copy" and "the same instance" are   *)
(* different things in the model as they are in the program.  All lengths  *)
(* are drawn as even integers, on which the program's division by two      *)
(* (shapes.py:76 and :91) is exact.                                        *)
EXTENDS Integers, Sequences, FiniteSets, TLC

VARIABLES heap,   \* shape objects (Rect and Rects instances), by identity
          last,   \* the most recent shape call: arguments, outcome, result
          elems,  \* markup elements (HTMLElement instances), by identity
          given,  \* per element: every child ever supplied to it, in order
          ret     \* the most recent markup call and its return value

vars == <<heap, last, elems, given, ret>>

-----------------------------------------------------------------------------
(* Bounds of the model *)

MaxDim == 2     \* widths and heights are 2*1 .. 2*MaxDim
MaxPos == 1     \* input positions are 0 or 2*MaxPos on each axis
MaxPad == 1     \* paddings are 0 or 2*MaxPad
MaxOff == 1     \* translation offsets are -2*MaxOff, 0 or 2*MaxOff
MaxLen == 2     \* hstack/vstack take at most MaxLen shapes
MaxN == 2       \* grid rows and cols range over -1 .. MaxN

Dims == {2 * k : k \in 1..MaxDim}
Poss == {0, 2 * MaxPos}
Pads == {0, 2 * MaxPad}
Offs == {0 - 2 * MaxOff, 0, 2 * MaxOff}
Counts == (0 - 1)..MaxN

-----------------------------------------------------------------------------
(* Arithmetic helpers *)

Min2(a, b) == IF a <= b THEN a ELSE b
Max2(a, b) == IF a >= b THEN a ELSE b

RECURSIVE Gcd(_, _)
Gcd(a, b) == IF b = 0 THEN a ELSE Gcd(b, a % b)

\* a non-negative rational n/d in lowest terms, as <<n, d>>
Frac(n, d) == LET g == Gcd(n, d) IN IF g = 0 THEN <<0, 1>> ELSE <<n \div g, d \div g>>

\* the value of (a non-empty) generator expression's min / max
RECURSIVE SeqMin(_)
SeqMin(s) == IF Len(s) = 1 THEN s[1] ELSE Min2(s[1], SeqMin(Tail(s)))

RECURSIVE SeqMax(_)
SeqMax(s) == IF Len(s) = 1 THEN s[1] ELSE Max2(s[1], SeqMax(Tail(s)))

-----------------------------------------------------------------------------
(* Rect: the dataclass, its defaults and __post_init__ *)

NoneValue == 0 - 1     \* Python's None, as the value of stroke_width

RectFields == {"cls", "width", "height", "x", "y", "rx", "ry", "color",
               "roughness", "stroke_color", "stroke_dasharray", "stroke_width",
               "text", "font_size", "text_color", "text_orientation"}

\* font_size is <<>> for the empty string and <<n, d>> for the string
\* "{n/d}px"
RectDefaults ==
    [cls |-> "Rect", width |-> 0, height |-> 0, x |-> 0, y |-> 0,
     rx |-> 0, ry |-> 0, color |-> "#000000", roughness |-> 0,
     stroke_color |-> "black", stroke_dasharray |-> "none",
     stroke_width |-> NoneValue, text |-> "", font_size |-> <<>>,
     text_color |-> "black", text_orientation |-> "horizontal"]

\* min(0.9*(w / max(0.6*len(text), 1)), h*0.3), w and h swapped for vertical text
DerivedFontSize(r) ==
    LET E == Max2(6 * Len(r.text), 10)     \* ten times estimated_text_size
        w == IF r.text_orientation = "horizontal" THEN r.width ELSE r.height
        h == IF r.text_orientation = "horizontal" THEN r.height ELSE r.width
    IN  IF 90 * w <= 3 * h * E THEN Frac(9 * w, E) ELSE Frac(3 * h, 10)

PostInit(r) ==
    IF r.font_size = <<>> THEN [r EXCEPT !.font_size = DerivedFontSize(r)] ELSE r

\* base with the fields named in kw replaced
Override(base, kw) ==
    [f \in RectFields |-> IF f \in DOMAIN kw THEN kw[f] ELSE base[f]]

\* Rect(**kw): the generated __init__ followed by __post_init__
NewRect(kw) == PostInit(Override(RectDefaults, kw))

\* dataclasses.replace(r, **kw): a new instance built by __init__ from r's
\* fields and kw, so __post_init__ runs again
Replace(r, kw) == PostInit(Override(r, kw))

NoKw == [f \in {} |-> 0]


-----------------------------------------------------------------------------
(* Shape operations.  An operation that creates objects takes the heap H   *)
(* and returns the grown heap with a reference to what it created.         *)

Alloc(H, obj) == [heap |-> Append(H, obj), ref |-> Len(H) + 1]

NewRects(H, ids) == Alloc(H, [cls |-> "Rects", rects |-> ids])

\* Variant of Rect.translate that hands back the rectangle itself when there
\* is nothing to move.
RectTranslateInPlace(H, id, dx, dy) ==
    IF dx = 0 /\ dy = 0 THEN [heap |-> H, ref |-> id]
    ELSE Alloc(H, Replace(H[id], [x |-> H[id].x + dx, y |-> H[id].y + dy]))

\* Variant of Rect.translate that builds the moved rectangle from its
\* geometry alone.
RectTranslateGeometryOnly(H, id, dx, dy) ==
    Alloc(H, NewRect([width |-> H[id].width, height |-> H[id].height,
                      x |-> H[id].x + dx, y |-> H[id].y + dy]))

\* Rect.translate
RectTranslate(H, id, dx, dy) ==
    Alloc(H, Replace(H[id], [x |-> H[id].x + dx, y |-> H[id].y + dy]))

\* a list under construction, [heap, refs], with the new object t appended
Collected(acc, t) == [heap |-> t.heap, refs |-> Append(acc.refs, t.ref)]

\* [rect.translate(dx, dy) for rect in self.rects], acc the list so far
RECURSIVE TranslateEach(_, _, _, _)
TranslateEach(acc, ids, dx, dy) ==
    IF ids = <<>> THEN acc
    ELSE TranslateEach(Collected(acc, RectTranslate(acc.heap, ids[1], dx, dy)),
                       Tail(ids), dx, dy)

\* Rects(list)
RectsOf(c) == NewRects(c.heap, c.refs)

\* Rects.translate
RectsTranslate(H, id, dx, dy) ==
    RectsOf(TranslateEach([heap |-> H, refs |-> <<>>], H[id].rects, dx, dy))

\* shape.translate(dx, dy), dispatched on the shape's class
Translate(H, id, dx, dy) ==
    IF H[id].cls = "Rect" THEN RectTranslate(H, id, dx, dy)
                          ELSE RectsTranslate(H, id, dx, dy)

\* dict(a, **b)
Merge(a, b) ==
    [f \in DOMAIN a \cup DOMAIN b |-> IF f \in DOMAIN b THEN b[f] ELSE a[f]]

\* Rect.bounding_rect: the Rect it returns
RectBoundingRect(H, id, kw) == Replace(H[id], kw)

\* Rects.bounding_rect: the Rect it returns
RectsBoundingRect(H, id, kw) ==
    LET rs == H[id].rects
        n  == Len(rs)
    IN  IF rs = <<>> THEN NewRect([width |-> 0, height |-> 0])
        ELSE LET min_x == SeqMin([i \in 1..n |-> H[rs[i]].x])
                 min_y == SeqMin([i \in 1..n |-> H[rs[i]].y])
                 max_x == SeqMax([i \in 1..n |-> H[rs[i]].x + H[rs[i]].width])
                 max_y == SeqMax([i \in 1..n |-> H[rs[i]].y + H[rs[i]].height])
                 rect_kws == [x |-> min_x, y |-> min_y,
                              width |-> max_x - min_x, height |-> max_y - min_y]
             IN  NewRect(Merge(rect_kws, kw))

\* shape.bounding_rect(**kw), dispatched on the shape's class
BoundingRect(H, id, kw) ==
    IF H[id].cls = "Rect" THEN RectBoundingRect(H, id, kw)
                          ELSE RectsBoundingRect(H, id, kw)

\* shape.shapes(): a Rect is its own one-element list, a Rects hands out
\* its list
Shapes(H, id) == IF H[id].cls = "Rect" THEN <<id>> ELSE H[id].rects

NoError == [type |-> "none", raised_by |-> "none"]

\* the exception max() raises over an empty generator
MaxOfEmpty == [type |-> "ValueError", raised_by |-> "max"]

\* a call that raised: nothing is returned
Raised(H, error) == [heap |-> H, ref |-> 0, error |-> error]

\* a call that returned the object a
Returned(a) == [heap |-> a.heap, ref |-> a.ref, error |-> NoError]

\* n / 2 (exact: every length of the model is even)
Half(n) == n \div 2

\* hstack's centring comprehension, acc the list so far
RECURSIVE HCenterEach(_, _, _)
HCenterEach(acc, shapes, height) ==
    IF shapes = <<>> THEN acc
    ELSE HCenterEach(
            Collected(acc, Translate(acc.heap, shapes[1], 0,
                Half(height - BoundingRect(acc.heap, shapes[1], NoKw).height))),
            Tail(shapes), height)

\* one turn of hstack's loop: t is the translated shape; extend the stack
\* and advance dx
HPlaced(st, t, padding) ==
    [heap  |-> t.heap,
     stack |-> st.stack \o Shapes(t.heap, t.ref),
     dx    |-> st.dx + BoundingRect(t.heap, t.ref, NoKw).width + padding]

\* hstack's placement loop over the loop state st = [heap, stack, dx]
RECURSIVE HStackLoop(_, _, _)
HStackLoop(st, shapes, padding) ==
    IF shapes = <<>> THEN st
    ELSE HStackLoop(HPlaced(st, Translate(st.heap, shapes[1], st.dx, 0), padding),
                    Tail(shapes), padding)

\* Rects(stack)
RectsOfStack(st) == NewRects(st.heap, st.stack)

\* hstack from line 79 on, c the (possibly centred) shapes
HStackFrom(c, padding) ==
    Returned(RectsOfStack(
        HStackLoop([heap |-> c.heap, stack |-> <<>>, dx |-> 0], c.refs, padding)))

HStack(H, shapes, padding, center) ==
    IF center /\ shapes = <<>> THEN Raised(H, MaxOfEmpty)
    ELSE HStackFrom(
            IF center
            THEN HCenterEach([heap |-> H, refs |-> <<>>], shapes,
                             SeqMax([i \in 1..Len(shapes) |->
                                        BoundingRect(H, shapes[i], NoKw).height]))
            ELSE [heap |-> H, refs |-> shapes],
            padding)

\* vstack's centring comprehension, acc the list so far
RECURSIVE VCenterEach(_, _, _)
VCenterEach(acc, shapes, width) ==
    IF shapes = <<>> THEN acc
    ELSE VCenterEach(
            Collected(acc, Translate(acc.heap, shapes[1],
                Half(width - BoundingRect(acc.heap, shapes[1], NoKw).width), 0)),
            Tail(shapes), width)

\* one turn of vstack's loop: t is the translated shape; extend the stack
\* and advance dy
VPlaced(st, t, padding) ==
    [heap  |-> t.heap,
     stack |-> st.stack \o Shapes(t.heap, t.ref),
     dy    |-> st.dy + BoundingRect(t.heap, t.ref, NoKw).height + padding]

\* vstack's placement loop over the loop state st = [heap, stack, dy]
RECURSIVE VStackLoop(_, _, _)
VStackLoop(st, shapes, padding) ==
    IF shapes = <<>> THEN st
    ELSE VStackLoop(VPlaced(st, Translate(st.heap, shapes[1], 0, st.dy), padding),
                    Tail(shapes), padding)

\* vstack from line 94 on, c the (possibly centred) shapes
VStackFrom(c, padding) ==
    Returned(RectsOfStack(
        VStackLoop([heap |-> c.heap, stack |-> <<>>, dy |-> 0], c.refs, padding)))

VStack(H, shapes, padding, center) ==
    IF center /\ shapes = <<>> THEN Raised(H, MaxOfEmpty)
    ELSE VStackFrom(
            IF center
            THEN VCenterEach([heap |-> H, refs |-> <<>>], shapes,
                             SeqMax([i \in 1..Len(shapes) |->
                                        BoundingRect(H, shapes[i], NoKw).width]))
            ELSE [heap |-> H, refs |-> shapes],
            padding)

\* [x] * n: empty when n <= 0
Repeat(x, n) == IF n <= 0 THEN <<>> ELSE [i \in 1..n |-> x]

\* vstack([row] * rows, padding=row_padding)
VStackRows(row, rows, row_padding) ==
    VStack(row.heap, Repeat(row.ref, rows), row_padding, FALSE)

\* Variant of grid with the two paddings handed to the wrong stack.
GridPaddingSwapped(H, shape, rows, cols, row_padding, col_padding) ==
    VStackRows(HStack(H, Repeat(shape, cols), row_padding, FALSE), rows, col_padding)

Grid(H, shape, rows, cols, row_padding, col_padding) ==
    VStackRows(HStack(H, Repeat(shape, cols), col_padding, FALSE), rows, row_padding)

-----------------------------------------------------------------------------
(* The caller's inputs *)

\* label and decoration of the first input rectangle: one with a derived
\* font size, one with an explicit font size
Styles ==
    { [text |-> "ab", text_orientation |-> "vertical", color |-> "red",
       rx |-> 1, ry |-> 1, roughness |-> 1, stroke_width |-> 2,
       stroke_color |-> "blue", stroke_dasharray |-> "5,5",
       text_color |-> "white"],
      [text |-> "abc", font_size |-> <<12, 1>>] }

\* bounding_rect's keyword overrides
Overrides ==
    { NoKw, [color |-> "red"], [x |-> 6], [width |-> 8, color |-> "red"] }

\* sequences over S of length at most n
SeqsUpTo(S, n) == UNION {[1..k -> S] : k \in 0..n}

NoCall == [op |-> "none"]

ShapeInit ==
    \E w1 \in Dims, h1 \in Dims, x1 \in Poss, y1 \in Poss, st \in Styles,
       w2 \in Dims, h2 \in Dims :
       heap = << NewRect(Merge([width |-> w1, height |-> h1, x |-> x1, y |-> y1], st)),
                 NewRect([width |-> w2, height |-> h2]),
                 [cls |-> "Rects", rects |-> <<1, 2>>],
                 [cls |-> "Rects", rects |-> <<>>] >>
    /\ last = NoCall

MarkupIdle ==
    /\ elems = <<>>
    /\ given = <<>>
    /\ ret = [op |-> "none"]

Init == ShapeInit /\ MarkupIdle

-----------------------------------------------------------------------------
(* Shape calls *)

\* the call op(args) ends with outcome r: the objects it created are on the
\* heap and the call is on record
Finish(op, args, r) ==
    /\ heap' = r.heap
    /\ last' = [op |-> op, args |-> args, before |-> heap, ref |-> r.ref,
                error |-> r.error, prev |-> last]
    /\ UNCHANGED <<elems, given, ret>>

DoTranslate ==
    /\ last.op = "none"
    /\ \E s \in 1..Len(heap), dx \in Offs, dy \in Offs :
          Finish("translate", [shape |-> s, dx |-> dx, dy |-> dy],
                 Returned(Translate(heap, s, dx, dy)))

\* translate applied to what a first translate returned
DoTranslateResult ==
    /\ last.op = "translate"
    /\ last.prev.op = "none"
    /\ \E dx \in Offs, dy \in Offs :
          Finish("translate", [shape |-> last.ref, dx |-> dx, dy |-> dy],
                 Returned(Translate(heap, last.ref, dx, dy)))

DoBoundingRect ==
    /\ last.op = "none"
    /\ \E s \in 1..Len(heap), kw \in Overrides :
          Finish("bounding_rect", [shape |-> s, kw |-> kw],
                 Returned(Alloc(heap, BoundingRect(heap, s, kw))))

DoHStack ==
    /\ last.op = "none"
    /\ \E shapes \in SeqsUpTo(1..Len(heap), MaxLen), padding \in Pads,
          center \in BOOLEAN :
          Finish("hstack",
                 [shapes |-> shapes, padding |-> padding, center |-> center],
                 HStack(heap, shapes, padding, center))

DoVStack ==
    /\ last.op = "none"
    /\ \E shapes \in SeqsUpTo(1..Len(heap), MaxLen), padding \in Pads,
          center \in BOOLEAN :
          Finish("vstack",
                 [shapes |-> shapes, padding |-> padding, center |-> center],
                 VStack(heap, shapes, padding, center))

DoGrid ==
    /\ last.op = "none"
    /\ \E s \in 1..Len(heap), rows \in Counts, cols \in Counts,
          row_padding \in Pads, col_padding \in Pads :
          Finish("grid", [shape |-> s, rows |-> rows, cols |-> cols,
                          row_padding |-> row_padding, col_padding |-> col_padding],
                 Grid(heap, s, rows, cols, row_padding, col_padding))

Next ==
    \/ DoTranslate
    \/ DoTranslateResult
    \/ DoBoundingRect
    \/ DoHStack
    \/ DoVStack
    \/ DoGrid

Spec == Init /\ [][Next]_vars

-----------------------------------------------------------------------------
(* Properties of the shape model *)

RECURSIVE SeqSum(_)
SeqSum(s) == IF Len(s) = 0 THEN 0 ELSE s[1] + SeqSum(Tail(s))

IsShapeCall(ops) == last.op \in ops /\ last.error = NoError

\* the leaf rectangles of the result that come from the i-th input shape
Segment(i) ==
    LET H0 == last.before
        ss == last.args.shapes
        start == SeqSum([j \in 1..(i - 1) |-> Len(Shapes(H0, ss[j]))])
    IN  SubSeq(heap[last.ref].rects, start + 1, start + Len(Shapes(H0, ss[i])))

LeftEdge(ids)   == SeqMin([k \in 1..Len(ids) |-> heap[ids[k]].x])
TopEdge(ids)    == SeqMin([k \in 1..Len(ids) |-> heap[ids[k]].y])
RightEdge(ids)  == SeqMax([k \in 1..Len(ids) |-> heap[ids[k]].x + heap[ids[k]].width])
BottomEdge(ids) == SeqMax([k \in 1..Len(ids) |-> heap[ids[k]].y + heap[ids[k]].height])

\* the input shapes of a stack call that have at least one leaf rectangle
Placed == {i \in 1..Len(last.args.shapes) : Segment(i) # <<>>}

InWidth(j)  == BoundingRect(last.before, last.args.shapes[j], NoKw).width
InHeight(j) == BoundingRect(last.before, last.args.shapes[j], NoKw).height

\* C3: with center=False, hstack puts the left edge of the i-th input
\* shape's bounding rectangle at the sum over the earlier shapes of
\* (bounding width + padding), whatever the input positions, and vstack
\* does the same with top edges and bounding heights; the result lists the
\* leaf rectangles in input order.
C3_EdgeAtRunningOffset ==
    (IsShapeCall({"hstack", "vstack"}) /\ ~last.args.center) =>
        /\ Len(heap[last.ref].rects) =
              SeqSum([j \in 1..Len(last.args.shapes) |->
                         Len(Shapes(last.before, last.args.shapes[j]))])
        /\ \A i \in Placed :
              IF last.op = "hstack"
              THEN LeftEdge(Segment(i)) =
                      SeqSum([j \in 1..(i - 1) |-> InWidth(j) + last.args.padding])
              ELSE TopEdge(Segment(i)) =
                      SeqSum([j \in 1..(i - 1) |-> InHeight(j) + last.args.padding])

\* C4: with center=True, hstack gives every input shape the vertical centre
\* of the tallest input shape, and vstack gives every input shape the
\* horizontal centre of the widest, whatever the input positions.  Centres
\* are compared doubled: 2*(y + height/2) = 2*y + height.
C4_SharedCentreLine ==
    (IsShapeCall({"hstack", "vstack"}) /\ last.args.center) =>
        \A i \in Placed : \A t \in Placed :
           IF last.op = "hstack"
           THEN (\A j \in Placed : InHeight(j) <= InHeight(t)) =>
                   TopEdge(Segment(i)) + BottomEdge(Segment(i)) =
                   TopEdge(Segment(t)) + BottomEdge(Segment(t))
           ELSE (\A j \in Placed : InWidth(j) <= InWidth(t)) =>
                   LeftEdge(Segment(i)) + RightEdge(Segment(i)) =
                   LeftEdge(Segment(t)) + RightEdge(Segment(t))

\* C5: hstack and vstack of an empty sequence with center=True end in an
\* "empty input" error raised by the stacking operation itself; with
\* center=False they return an empty collection without error.
C5_EmptyInputError ==
    (last.op \in {"hstack", "vstack"} /\ last.args.shapes = <<>>) =>
        IF last.args.center
        THEN last.error = [type |-> "EmptyInputError", raised_by |-> last.op]
        ELSE last.error = NoError /\ heap[last.ref].rects = <<>>

\* the minimal cover of the member rectangles, zero-sized at the origin
\* for no members
Cover(H, ids) ==
    IF ids = <<>> THEN [x |-> 0, y |-> 0, width |-> 0, height |-> 0]
    ELSE LET n == Len(ids)
             lo_x == SeqMin([k \in 1..n |-> H[ids[k]].x])
             lo_y == SeqMin([k \in 1..n |-> H[ids[k]].y])
         IN  [x |-> lo_x, y |-> lo_y,
              width  |-> SeqMax([k \in 1..n |-> H[ids[k]].x + H[ids[k]].width]) - lo_x,
              height |-> SeqMax([k \in 1..n |-> H[ids[k]].y + H[ids[k]].height]) - lo_y]

\* C6: Rects.bounding_rect(overrides) returns a rectangle that has the
\* override value in every overridden field and the minimal cover in every
\* other geometry field, for the empty collection too.
C6_BoundingRectOverrides ==
    (last.op = "bounding_rect" /\ last.before[last.args.shape].cls = "Rects") =>
        LET b  == heap[last.ref]
            kw == last.args.kw
            cv == Cover(last.before, last.before[last.args.shape].rects)
        IN  /\ \A f \in DOMAIN kw : b[f] = kw[f]
            /\ \A f \in {"x", "y", "width", "height"} \ DOMAIN kw : b[f] = cv[f]

\* a single rectangle at the origin
AtOrigin(H, s) == H[s].cls = "Rect" /\ H[s].x = 0 /\ H[s].y = 0

\* C7: grid of a single rectangle template at the origin returns
\* max(rows,0)*max(cols,0) rectangles in row-major order, the one of row r
\* and column c at (c*(w+col_padding), r*(h+row_padding)) with the
\* template's width and height; no error, and an empty collection when
\* rows <= 0 or cols <= 0.
C7_GridLayout ==
    (last.op = "grid" /\ AtOrigin(last.before, last.args.shape)) =>
        LET t == last.before[last.args.shape]
            R == Max2(last.args.rows, 0)
            C == Max2(last.args.cols, 0)
            cells == heap[last.ref].rects
        IN  /\ last.error = NoError
            /\ Len(cells) = R * C
            /\ \A r \in 0..(R - 1) : \A c \in 0..(C - 1) :
                  LET cell == heap[cells[r * C + c + 1]]
                  IN  /\ cell.x = c * (t.width + last.args.col_padding)
                      /\ cell.y = r * (t.height + last.args.row_padding)
                      /\ cell.width = t.width
                      /\ cell.height = t.height

C7_Witness ==
    /\ last.op = "grid" /\ AtOrigin(last.before, last.args.shape)
    /\ last.args.rows = 2 /\ last.args.cols = 2
    /\ last.args.row_padding > 0 /\ last.args.col_padding = 0
    /\ last.before[last.args.shape].width # last.before[last.args.shape].height
    /\ Len(heap[last.ref].rects) = 4

\* the member rectangles of shape s in heap H, as values
Members(H, s) == [k \in 1..Len(Shapes(H, s)) |-> H[Shapes(H, s)[k]]]

\* C8: translate is additive and changes only position:
\* translate(translate(s, a, b), c, d) equals translate(s, a+c, b+d) in
\* every field of every member, each member sits at its original position
\* plus (a+c, b+d), every other field (the font size too) is that of the
\* corresponding member of s, and a collection keeps its member count and
\* order.
C8_TranslateAdditive ==
    (last.op = "translate" /\ last.prev.op = "translate") =>
        LET H0  == last.prev.before
            s   == last.prev.args.shape
            ddx == last.prev.args.dx + last.args.dx
            ddy == last.prev.args.dy + last.args.dy
            direct == Translate(H0, s, ddx, ddy)
            twice  == Members(heap, last.ref)
            orig   == Members(H0, s)
        IN  /\ heap[last.ref].cls = H0[s].cls
            /\ twice = Members(direct.heap, direct.ref)
            /\ Len(twice) = Len(orig)
            /\ \A k \in 1..Len(orig) :
                  /\ twice[k].x = orig[k].x + ddx
                  /\ twice[k].y = orig[k].y + ddy
                  /\ \A f \in RectFields \ {"x", "y"} : twice[k][f] = orig[k][f]

C8_Witness ==
    /\ last.op = "translate" /\ last.prev.op = "translate"
    /\ last.prev.args.shape = 3
    /\ last.prev.args.dx > 0 /\ last.args.dx > 0 /\ last.prev.args.dy < 0
    /\ Len(heap[last.ref].rects) = 2
    /\ heap[heap[last.ref].rects[1]].text = "ab"
    /\ heap[heap[last.ref].rects[1]].x = heap[1].x + last.prev.args.dx + last.args.dx

\* the rectangle instances the last call was given
InputRects ==
    LET H0 == last.before
        given_shapes == IF last.op \in {"hstack", "vstack"}
                        THEN {last.args.shapes[i] : i \in 1..Len(last.args.shapes)}
                        ELSE {last.args.shape}
    IN  UNION {{Shapes(H0, s)[k] : k \in 1..Len(Shapes(H0, s))} : s \in given_shapes}

\* C10: translate, hstack, vstack and grid leave every input rectangle and
\* collection as it was, return no rectangle instance that is an input
\* rectangle (also for a zero offset), and the cells of a grid are pairwise
\* distinct instances.
C10_NoMutationNoAlias ==
    IsShapeCall({"translate", "hstack", "vstack", "grid"}) =>
        LET out == Shapes(heap, last.ref)
        IN  /\ SubSeq(heap, 1, Len(last.before)) = last.before
            /\ last.ref \notin 1..Len(last.before)
            /\ \A k \in 1..Len(out) : out[k] \notin InputRects
            /\ last.op = "grid" =>
                  \A i \in 1..Len(out) : \A j \in 1..Len(out) :
                     i # j => out[i] # out[j]

C10_Witness ==
    /\ last.op = "grid" /\ last.error = NoError
    /\ last.before[last.args.shape].cls = "Rect"
    /\ last.args.rows = 2 /\ last.args.cols = 2
    /\ Len(heap[last.ref].rects) = 4
    /\ heap[heap[last.ref].rects[1]] = last.before[last.args.shape]

-----------------------------------------------------------------------------
(* The markup builder.  A string is a sequence of tokens: single           *)
(* characters, and a tag or attribute name as one token.                   *)

MaxNodes == 4       \* elements constructed plus children supplied, in all

VOID_ELEMENTS ==
    {"area", "base", "br", "col", "embed", "hr", "img", "input",
     "link", "meta", "param", "source", "track", "wbr"}

\* tag names as callers write them
Tags == {"div", "BR"}

\* str.lower on the tag names in use
Lower(tag) ==
    CASE tag = "BR"  -> "br"
      [] tag = "DIV" -> "div"
      [] OTHER       -> tag

\* html.escape(s), quote=True, one character at a time
EscapeChar(c) ==
    CASE c = "&"  -> <<"&", "a", "m", "p", ";">>
      [] c = "<"  -> <<"&", "l", "t", ";">>
      [] c = ">"  -> <<"&", "g", "t", ";">>
      [] c = "\"" -> <<"&", "q", "u", "o", "t", ";">>
      [] c = "'"  -> <<"&", "#", "x", "2", "7", ";">>
      [] OTHER    -> <<c>>

RECURSIVE Escape(_)
Escape(s) == IF s = <<>> THEN <<>> ELSE EscapeChar(s[1]) \o Escape(Tail(s))

\* k.rstrip('_')
RECURSIVE RStrip(_)
RStrip(k) ==
    IF k # <<>> /\ k[Len(k)] = "_" THEN RStrip(SubSeq(k, 1, Len(k) - 1)) ELSE k

\* a child is an element, a piece of text or None
ElemChild(id) == [kind |-> "elem", id |-> id]
TextChild(s)  == [kind |-> "text", s |-> s]
NoneChild     == [kind |-> "none"]

\* str(child) of a child that is no element
Str(child) == IF child.kind = "none" THEN <<"N", "o", "n", "e">> ELSE child.s

\* [child for child in children if child is not None]
RECURSIVE DropNone(_)
DropNone(cs) ==
    IF cs = <<>> THEN <<>>
    ELSE IF cs[1].kind = "none" THEN DropNone(Tail(cs))
         ELSE <<cs[1]>> \o DropNone(Tail(cs))

\* ' ' + ' '.join(f'{strip_(k)}="{html.escape(str(v))}"' ...), or ''
RECURSIVE JoinAttrs(_)
JoinAttrs(attrs) ==
    IF attrs = <<>> THEN <<>>
    ELSE <<" ">> \o RStrip(attrs[1].k) \o <<"=", "\"">> \o Escape(attrs[1].v)
         \o <<"\"">> \o JoinAttrs(Tail(attrs))

AttrStr(attrs) == JoinAttrs(attrs)

\* Variant of to_html_string that closes every tag, void or not.
RECURSIVE ToHtmlStringNoVoid(_, _)
RECURSIVE ContentNoVoid(_, _)
ContentNoVoid(E, cs) ==
    IF cs = <<>> THEN <<>>
    ELSE (IF cs[1].kind = "elem" THEN ToHtmlStringNoVoid(E, cs[1].id) ELSE Str(cs[1]))
         \o ContentNoVoid(E, Tail(cs))
ToHtmlStringNoVoid(E, id) ==
    <<"<", E[id].tag>> \o AttrStr(E[id].attributes) \o <<">">>
    \o ContentNoVoid(E, E[id].children) \o <<"<", "/", E[id].tag, ">">>

\* Variant of to_html_string that escapes text children as it escapes
\* attribute values.
RECURSIVE ToHtmlStringEscaped(_, _)
RECURSIVE ContentEscaped(_, _)
ContentEscaped(E, cs) ==
    IF cs = <<>> THEN <<>>
    ELSE (IF cs[1].kind = "elem" THEN ToHtmlStringEscaped(E, cs[1].id)
          ELSE Escape(Str(cs[1])))
         \o ContentEscaped(E, Tail(cs))
ToHtmlStringEscaped(E, id) ==
    IF E[id].tag \in VOID_ELEMENTS
    THEN <<"<", E[id].tag>> \o AttrStr(E[id].attributes) \o <<" ", "/", ">">>
    ELSE <<"<", E[id].tag>> \o AttrStr(E[id].attributes) \o <<">">>
         \o ContentEscaped(E, E[id].children) \o <<"<", "/", E[id].tag, ">">>

\* HTMLElement.to_html_string(pretty=False) of element id
RECURSIVE ToHtmlString(_, _)

\* ''.join(child.to_html_string() if hasattr(child, 'to_html_string')
\*         else str(child) for child in self.children)
RECURSIVE Content(_, _)
Content(E, cs) ==
    IF cs = <<>> THEN <<>>
    ELSE (IF cs[1].kind = "elem" THEN ToHtmlString(E, cs[1].id) ELSE Str(cs[1]))
         \o Content(E, Tail(cs))

ToHtmlString(E, id) ==
    IF E[id].tag \in VOID_ELEMENTS
    THEN <<"<", E[id].tag>> \o AttrStr(E[id].attributes) \o <<" ", "/", ">">>
    ELSE <<"<", E[id].tag>> \o AttrStr(E[id].attributes) \o <<">">>
         \o Content(E, E[id].children) \o <<"<", "/", E[id].tag, ">">>

\* the elements reachable from element id through child lists, id included
RECURSIVE Reach(_, _, _)
Reach(E, todo, seen) ==
    IF todo = {} THEN seen
    ELSE LET n == CHOOSE m \in todo : TRUE
             kids == {E[n].children[i].id :
                        i \in {j \in 1..Len(E[n].children) : E[n].children[j].kind = "elem"}}
         IN  Reach(E, (todo \cup kids) \ (seen \cup {n}), seen \cup {n})

-----------------------------------------------------------------------------
(* The caller's markup inputs *)

AttrSets ==
    { <<>>,
      << [k |-> <<"class", "_">>, v |-> <<"a", "<", "\"">>] >> }

\* what a caller may pass as one child, given the elements that exist
ChildValues ==
    {NoneChild, TextChild(<<"<", "script", ">">>)}
       \cup {ElemChild(i) : i \in 1..Len(elems)}

\* the elements constructed and the children supplied so far
RECURSIVE Supplied(_)
Supplied(g) == IF g = <<>> THEN 0 ELSE Len(g[1]) + Supplied(Tail(g))

Size == Len(elems) + Supplied(given)

MarkupInit ==
    /\ heap = <<>>
    /\ last = NoCall
    /\ MarkupIdle

-----------------------------------------------------------------------------
(* Markup calls *)

\* HTMLElement(tag, *children, **attributes)
Construct(tag, children, attributes) ==
    /\ Size + 1 + Len(children) <= MaxNodes
    /\ elems' = Append(elems, [tag |-> Lower(tag), children |-> DropNone(children),
                               attributes |-> attributes])
    /\ given' = Append(given, children)
    /\ ret' = [op |-> "HTMLElement", self |-> Len(elems) + 1, value |-> <<>>]
    /\ UNCHANGED <<heap, last>>

\* element[item] with item a list or tuple
GetItemList(id, items) ==
    /\ Size + Len(items) <= MaxNodes
    /\ \A i \in 1..Len(items) :
          items[i].kind = "elem" => id \notin Reach(elems, {items[i].id}, {})
    /\ elems' = [elems EXCEPT ![id].children = @ \o items]
    /\ given' = [given EXCEPT ![id] = @ \o items]
    /\ ret' = [op |-> "__getitem__", self |-> id, value |-> <<>>]
    /\ UNCHANGED <<heap, last>>

\* element[item] with any other item
GetItemOne(id, item) ==
    /\ Size + 1 <= MaxNodes
    /\ item.kind = "elem" => id \notin Reach(elems, {item.id}, {})
    /\ elems' = [elems EXCEPT ![id].children = Append(@, item)]
    /\ given' = [given EXCEPT ![id] = Append(@, item)]
    /\ ret' = [op |-> "__getitem__", self |-> id, value |-> <<>>]
    /\ UNCHANGED <<heap, last>>

\* element.to_html_string()
CallToHtmlString(id) ==
    /\ ret' = [op |-> "to_html_string", self |-> id, value |-> ToHtmlString(elems, id)]
    /\ UNCHANGED <<heap, last, elems, given>>

MarkupNext ==
    \/ \E tag \in Tags, children \in SeqsUpTo(ChildValues, MaxNodes - Size - 1),
          attributes \in AttrSets : Construct(tag, children, attributes)
    \/ \E id \in 1..Len(elems), items \in SeqsUpTo(ChildValues, MaxNodes - Size) :
          GetItemList(id, items)
    \/ \E id \in 1..Len(elems), item \in ChildValues : GetItemOne(id, item)
    \/ \E id \in 1..Len(elems) : CallToHtmlString(id)

MarkupSpec == MarkupInit /\ [][MarkupNext]_vars

-----------------------------------------------------------------------------
(* Properties of the markup builder *)

\* how many times token c occurs in string s
RECURSIVE Count(_, _)
Count(c, s) == IF s = <<>> THEN 0 ELSE (IF s[1] = c THEN 1 ELSE 0) + Count(c, Tail(s))

\* how many tags the rendering of element id writes: one for a void
\* element, an opening and a closing one otherwise, plus those of the child
\* elements of a non-void element
RECURSIVE TagsWritten(_, _)
RECURSIVE TagsWrittenIn(_, _)
TagsWrittenIn(E, cs) ==
    IF cs = <<>> THEN 0
    ELSE (IF cs[1].kind = "elem" THEN TagsWritten(E, cs[1].id) ELSE 0)
         + TagsWrittenIn(E, Tail(cs))
TagsWritten(E, id) ==
    IF E[id].tag \in VOID_ELEMENTS THEN 1 ELSE 2 + TagsWrittenIn(E, E[id].children)

\* how many times character c occurs in the text children that the
\* rendering of element id passes through (those below a void element are
\* not rendered)
RECURSIVE TextCount(_, _, _)
RECURSIVE TextCountIn(_, _, _)
TextCountIn(c, E, cs) ==
    IF cs = <<>> THEN 0
    ELSE (CASE cs[1].kind = "elem" -> TextCount(c, E, cs[1].id)
            [] cs[1].kind = "text" -> Count(c, cs[1].s)
            [] OTHER -> 0)
         + TextCountIn(c, E, Tail(cs))
TextCount(c, E, id) ==
    IF E[id].tag \in VOID_ELEMENTS THEN 0 ELSE TextCountIn(c, E, E[id].children)

Rendered == ret.op = "to_html_string"

\* C1 as stated: to_html_string emits every text child entity-escaped, so
\* the only '<' and '>' of the output are those of the tags it writes.
C1_TextChildrenEscaped ==
    Rendered =>
        /\ Count("<", ret.value) = TagsWritten(elems, ret.self)
        /\ Count(">", ret.value) = TagsWritten(elems, ret.self)

\* C1 as amended: to_html_string emits a text child by plain string
\* conversion, unescaped: besides the brackets of the tags it writes, the
\* output holds exactly the '<' and '>' of the rendered text children;
\* attribute values contribute none.
C1_TextChildrenVerbatim ==
    Rendered =>
        /\ Count("<", ret.value) =
              TagsWritten(elems, ret.self) + TextCount("<", elems, ret.self)
        /\ Count(">", ret.value) =
              TagsWritten(elems, ret.self) + TextCount(">", elems, ret.self)

C1_Witness ==
    /\ Rendered
    /\ elems[ret.self].tag = "div"
    /\ elems[ret.self].attributes # <<>>
    /\ \E i \in 1..Len(elems[ret.self].children) :
          /\ elems[ret.self].children[i].kind = "elem"
          /\ elems[elems[ret.self].children[i].id].tag = "div"
          /\ TextCount("<", elems, elems[ret.self].children[i].id) > 0
    /\ Count("<", ret.value) = 5

\* C2: an element's child list is what was supplied to it, at construction
\* and by the bracket operator, with the None entries dropped and the rest
\* in supply order; it holds no None.
C2_ChildrenHoldNoNone ==
    \A id \in 1..Len(elems) :
       /\ elems[id].children = DropNone(given[id])
       /\ \A i \in 1..Len(elems[id].children) : elems[id].children[i].kind # "none"

\* s has the tokens of t at positions i .. i+Len(t)-1
HasAt(s, t, i) == i + Len(t) - 1 <= Len(s) /\ SubSeq(s, i, i + Len(t) - 1) = t

\* the renderings of the children of a non-void element, in order, fill s
\* from position i on
RECURSIVE ChildrenFill(_, _, _, _)
ChildrenFill(E, cs, s, i) ==
    IF cs = <<>> THEN i = Len(s) + 1
    ELSE LET piece == IF cs[1].kind = "elem" THEN ToHtmlString(E, cs[1].id)
                                            ELSE Str(cs[1])
         IN  HasAt(s, piece, i) /\ ChildrenFill(E, Tail(cs), s, i + Len(piece))

\* C9: an element whose tag is in the void set renders as '<tag attrs />'
\* whatever children it was given: no closing tag, nothing of a child; any
\* other element renders as '<tag attrs>children</tag>', the children
\* rendered recursively and in order.
C9_VoidAndNonVoidForm ==
    Rendered =>
        LET e     == elems[ret.self]
            out   == ret.value
            open  == <<"<", e.tag>> \o AttrStr(e.attributes)
            close == <<"<", "/", e.tag, ">">>
        IN  IF e.tag \in VOID_ELEMENTS
            THEN /\ out = open \o <<" ", "/", ">">>
                 /\ \A i \in 1..Len(out) : ~HasAt(out, close, i)
                 /\ Count("<", out) = 1
            ELSE /\ HasAt(out, open \o <<">">>, 1)
                 /\ HasAt(out, close, Len(out) - 3)
                 /\ ChildrenFill(elems, e.children,
                                 SubSeq(out, 1, Len(out) - 4), Len(open) + 2)

C9_Witness ==
    /\ Rendered
    /\ elems[ret.self].tag = "br"
    /\ Len(elems[ret.self].children) = 2
    /\ elems[ret.self].children[1].kind = "text"
    /\ elems[ret.self].children[2].kind = "elem"
    /\ elems[ret.self].attributes # <<>>

=============================================================================
